---------------------------- MODULE Spec2Model ----------------------------
(***************************************************************************)
(* Neural Search API (src/app.py): a multi-tenant product search service.  *)
(*                                                                         *)
(* Text is a sequence of atoms (a letter group, a blank, a markup sign).   *)
(* Scores are integers: a similarity or a fuzzy ratio is in hundredths,    *)
(* a combined or boosted score and a boost weight in thousandths, so that  *)
(* 0.7 * neural + 0.3 * fuzzy is 7 * neural + 3 * fuzzy.                   *)
(***************************************************************************)
EXTENDS Integers, Sequences, FiniteSets, TLC

\* ------------------------------------------------------------------ bounds
\* Threads running background_train at the same time.
MaxTasks == 2
\* Request threads inside the /search handler at the same time.
MaxSearches == 1

\* ------------------------------------------------------------ text helpers
Min(S) == CHOOSE x \in S : \A y \in S : x <= y

IsSpace(a) == a \in {" ", "\n"}

\* str.lower(), atom by atom.
LowerAtom(a) ==
    CASE a = "Jeans" -> "jeans"
      [] a = "Black" -> "black"
      [] a = "Blue" -> "blue"
      [] a = "Slim" -> "slim"
      [] a = "Summer" -> "summer"
      [] OTHER -> a

lower(text) == [i \in 1..Len(text) |-> LowerAtom(text[i])]

\* Python's `sub in s` for a non-empty or empty sub.
Contains(sub, s) ==
    \E i \in 0..(Len(s) - Len(sub)) : SubSeq(s, i + 1, i + Len(sub)) = sub

\* re.sub(r'<[^>]+>', '', text): leftmost matches, each from a "<" to the
\* first ">" after it with at least one atom between them.
RECURSIVE StripTagsFrom(_, _)
StripTagsFrom(text, i) ==
    IF i > Len(text) THEN <<>>
    ELSE LET closers == {j \in (i + 1)..Len(text) : text[j] = ">"}
         IN  IF text[i] = "<" /\ closers # {} /\ Min(closers) > i + 1
             THEN StripTagsFrom(text, Min(closers) + 1)
             ELSE <<text[i]>> \o StripTagsFrom(text, i + 1)

\* re.sub(r'\s+', ' ', text)
RECURSIVE CollapseFrom(_, _)
CollapseFrom(text, i) ==
    IF i > Len(text) THEN <<>>
    ELSE IF IsSpace(text[i])
         THEN IF i > 1 /\ IsSpace(text[i - 1])
              THEN CollapseFrom(text, i + 1)
              ELSE <<" ">> \o CollapseFrom(text, i + 1)
         ELSE <<text[i]>> \o CollapseFrom(text, i + 1)

\* str.strip()
Trim(text) ==
    LET keep == {i \in 1..Len(text) : ~IsSpace(text[i])}
    IN  IF keep = {} THEN <<>>
        ELSE SubSeq(text, Min(keep), CHOOSE j \in keep : \A k \in keep : k <= j)

strip_html(text) ==
    IF text = <<>> THEN <<>>
    ELSE Trim(CollapseFrom(StripTagsFrom(text, 1), 1))

\* An element is a function from the tags of its children to their text.
get_text(element, tag) ==
    IF tag \in DOMAIN element /\ element[tag] # <<>>
    THEN strip_html(element[tag])
    ELSE <<>>

\* a or b, on strings
OrElse(a, b) == IF a # <<>> THEN a ELSE b

\* ' '.join(filter(None, parts))
RECURSIVE JoinNonEmpty(_)
JoinNonEmpty(parts) ==
    IF parts = <<>> THEN <<>>
    ELSE LET rest == JoinNonEmpty(Tail(parts))
         IN  IF Head(parts) = <<>> THEN rest
             ELSE IF rest = <<>> THEN Head(parts)
             ELSE Head(parts) \o <<" ">> \o rest

\* description[:500], in atoms
DescriptionLimit == 500

Truncate(text, n) == SubSeq(text, 1, IF Len(text) < n THEN Len(text) ELSE n)

\* The product_data of one <product> element, search_text included.
ProductData(product) ==
    LET pd == [id |-> get_text(product, "id"),
               name |-> get_text(product, "name"),
               model |-> OrElse(get_text(product, "mpn"), get_text(product, "model")),
               description |-> get_text(product, "description"),
               category |-> get_text(product, "category"),
               season |-> get_text(product, "season"),
               gender |-> get_text(product, "gender"),
               kind_of |-> get_text(product, "kind_of"),
               fit |-> get_text(product, "fit"),
               color |-> get_text(product, "color"),
               manufacturer |-> get_text(product, "manufacturer"),
               price |-> OrElse(get_text(product, "price_with_vat"),
                                get_text(product, "price")),
               image |-> get_text(product, "image"),
               url |-> OrElse(get_text(product, "link"), get_text(product, "url"))]
        search_text_parts ==
            <<pd.name, pd.model, Truncate(pd.description, DescriptionLimit),
              pd.category, pd.season, pd.gender, pd.kind_of, pd.fit, pd.color,
              pd.manufacturer>>
    IN  [f \in DOMAIN pd \cup {"search_text"} |->
            IF f = "search_text" THEN JoinNonEmpty(search_text_parts) ELSE pd[f]]


ParseProducts(xml_content) ==
    [i \in 1..Len(xml_content) |-> ProductData(xml_content[i])]


\* ------------------------------------------------- embedder and fuzzy scorer
\* The sentence-transformers model and rapidfuzz are libraries the program
\* calls; a deterministic stand-in for each: an embedding counts the atoms of
\* two word families (coordinates in tenths), and partial_ratio is 100 when the
\* shorter text occurs in the longer one, 50 when they share a word, 0 otherwise.
GarmentWords == {"jeans", "shirt"}
ColourWords == {"black", "blue"}

CountIn(text, words) == Cardinality({i \in 1..Len(text) : LowerAtom(text[i]) \in words})

Encode(text) == <<CountIn(text, GarmentWords), CountIn(text, ColourWords)>>

EncodeAll(texts) == [i \in 1..Len(texts) |-> Encode(texts[i])]

\* np.dot of two vectors, in hundredths
Dot(u, v) == u[1] * v[1] + u[2] * v[2]

partial_ratio(s1, s2) ==
    IF s1 = <<>> \/ s2 = <<>> THEN 0
    ELSE IF (Len(s1) <= Len(s2) /\ Contains(s1, s2)) \/ (Len(s2) <= Len(s1) /\ Contains(s2, s1))
         THEN 100
    ELSE IF \E i \in 1..Len(s1), j \in 1..Len(s2) : s1[i] = s2[j] /\ ~IsSpace(s1[i])
         THEN 50
    ELSE 0

MaxOf(S) == CHOOSE x \in S : \A y \in S : y <= x

\* The fuzzy score of one product, in hundredths (src/app.py 214-221).
FuzzyScore(query, product) ==
    MaxOf({partial_ratio(lower(query), lower(product[f])) :
             f \in {"name", "model", "description", "category", "season", "gender"}})

\* ------------------------------------------------------------------- boosts
BoostKeys == {"season", "category", "manufacturer", "color", "gender", "fit", "kind_of"}

\* The season keywords, transliterated: query keywords and the stem looked for
\* in the product's season.
SeasonTable ==
    << [keywords |-> {<<"kalokairi">>, <<"summer">>}, stem |-> <<"kalokair">>],
       [keywords |-> {<<"cheimona">>, <<"kryo">>, <<"winter">>}, stem |-> <<"cheim">>],
       [keywords |-> {<<"anoixi">>, <<"spring">>}, stem |-> <<"anoix">>],
       [keywords |-> {<<"fthinoporo">>, <<"autumn">>, <<"fall">>}, stem |-> <<"fthin">>] >>

FamilyMatches(k, query_lower, season) ==
    /\ \E w \in SeasonTable[k].keywords : Contains(w, query_lower)
    /\ Contains(SeasonTable[k].stem, season)

\* The if/elif chain of the season boost (src/app.py 239-246): the first
\* family that matches adds the weight, and the chain ends there.
RECURSIVE SeasonChain(_, _, _, _)
SeasonChain(k, query_lower, season, weight) ==
    IF k > Len(SeasonTable) THEN 0
    ELSE IF FamilyMatches(k, query_lower, season) THEN weight
    ELSE SeasonChain(k + 1, query_lower, season, weight)

\* str.split(): the words between runs of blanks
Words(text) ==
    {SubSeq(text, x[1], x[2]) :
        x \in {y \in (1..Len(text)) \X (1..Len(text)) :
                  /\ y[1] <= y[2]
                  /\ \A k \in y[1]..y[2] : ~IsSpace(text[k])
                  /\ (y[1] = 1 \/ IsSpace(text[y[1] - 1]))
                  /\ (y[2] = Len(text) \/ IsSpace(text[y[2] + 1]))}}

\* Whether the attribute's predicate matches the query for the product.
\* (AttributeMatchesEmpty is AttributeMatches without the test that the product
\* has the attribute: the empty string is in every query.)
AttributeMatchesEmpty(key, query_lower, product) ==
    LET value == lower(product[key])
    IN  CASE key = "fit" -> \E word \in Words(value) : Contains(word, query_lower)
          [] OTHER -> Contains(value, query_lower)

AttributeMatches(key, query_lower, product) ==
    LET value == lower(product[key])
    IN  /\ value # <<>>
        /\ CASE key = "fit" -> \E word \in Words(value) : Contains(word, query_lower)
             [] OTHER -> Contains(value, query_lower)

\* The boost of one product (src/app.py 232-282), in thousandths.
BoostOf(key, query_lower, product, boost_config) ==
    IF boost_config[key] > 0
    THEN IF key = "season"
         THEN IF lower(product.season) # <<>>
              THEN SeasonChain(1, query_lower, lower(product.season), boost_config.season)
              ELSE 0
         ELSE IF AttributeMatches(key, query_lower, product) THEN boost_config[key] ELSE 0
    ELSE 0

Boost(query_lower, product, boost_config) ==
    BoostOf("season", query_lower, product, boost_config)
    + BoostOf("category", query_lower, product, boost_config)
    + BoostOf("manufacturer", query_lower, product, boost_config)
    + BoostOf("color", query_lower, product, boost_config)
    + BoostOf("gender", query_lower, product, boost_config)
    + BoostOf("fit", query_lower, product, boost_config)
    + BoostOf("kind_of", query_lower, product, boost_config)

\* ------------------------------------------------------ NeuralSearchEngine
\* An engine object: its products, its embeddings (one row per product) and
\* whether its embedder is loaded (self.embedder is not None).
NewEngine == [products |-> <<>>, embeddings |-> <<>>, embedder |-> FALSE]

\* The artifact train() serializes (trained_at, a wall-clock reading, left out).
ModelData(shop_id, products, embeddings) ==
    [shop_id |-> shop_id, products |-> products, embeddings |-> embeddings]

\* A file of MODELS_DIR. open(path, 'w') truncates it; json.dump fills a
\* buffer that reaches the file by the time it is closed. Between the two the
\* file holds a proper prefix of the document (nothing, at first): content is
\* <<>> then, and <<d>> once document d is written in full.
NoFile == [exists |-> FALSE, content |-> <<>>]
TornFile == [exists |-> TRUE, content |-> <<>>]
WholeFile(doc) == [exists |-> TRUE, content |-> <<doc>>]

\* json.load succeeds on a whole document, and on no proper prefix of one.
Parses(file) == file.exists /\ file.content # <<>>

\* NeuralSearchEngine.load: the engine after the call and what it returned.
\* (LoadProductsOnly is Load without line 174: the embeddings are not read.)
LoadProductsOnly(engine, file) ==
    IF ~file.exists THEN [ok |-> FALSE, engine |-> engine]
    ELSE IF Parses(file)
         THEN [ok |-> TRUE,
               engine |-> [engine EXCEPT !.products = file.content[1].products]]
         ELSE [ok |-> FALSE, engine |-> engine]

Load(engine, file) ==
    IF ~file.exists THEN [ok |-> FALSE, engine |-> engine]
    ELSE IF Parses(file)
         THEN [ok |-> TRUE,
               engine |-> [engine EXCEPT !.products = file.content[1].products,
                                         !.embeddings = file.content[1].embeddings]]
         ELSE [ok |-> FALSE, engine |-> engine]

\* The scores of product i for a query (src/app.py 208-284): the similarity
\* (the dot product of its embedding and the query's), the fuzzy score, the
\* combined score 0.7 * neural + 0.3 * fuzzy and the boosted score.
ScoresOf(engine, query, boost_config, i) ==
    LET neural == Dot(engine.embeddings[i], Encode(query))
        fuzzy == FuzzyScore(query, engine.products[i])
    IN  [neural_score |-> neural,
         fuzzy_score |-> fuzzy,
         base_score |-> 7 * neural + 3 * fuzzy,
         score |-> 7 * neural + 3 * fuzzy
                   + Boost(lower(query), engine.products[i], boost_config)]

Scores(engine, query, boost_config) ==
    [i \in 1..Len(engine.products) |-> ScoresOf(engine, query, boost_config, i)]

IndexPermutations(n) == {f \in [1..n -> 1..n] : \A i, j \in 1..n : i # j => f[i] # f[j]}

\* np.argsort(scores): an ordering of the indices by ascending score. The
\* default kind is not a stable sort, so indices of equal score come in any
\* order the build produces.
ArgSorts(scores) ==
    {f \in IndexPermutations(Len(scores)) :
        \A i, j \in 1..Len(scores) : i < j => scores[f[i]] <= scores[f[j]]}

\* seq[::-1]
Reversed(seq) == [i \in 1..Len(seq) |-> seq[Len(seq) + 1 - i]]

\* seq[:limit], a negative limit counting from the end
Slice(seq, limit) ==
    IF limit >= 0
    THEN SubSeq(seq, 1, IF limit < Len(seq) THEN limit ELSE Len(seq))
    ELSE SubSeq(seq, 1, IF Len(seq) + limit > 0 THEN Len(seq) + limit ELSE 0)

\* Lines 286-307 of search: the ranked, filtered, truncated results, given
\* the scores and the ordering argsort returned for the boosted scores. idx is
\* the product's place in self.products (it tells equal products apart).
\* (RankedResultsBaseFilter is RankedResults filtering on the combined score,
\* RankedResultsInverted is RankedResults with the comparison turned round.)
RankedResultsBaseFilter(engine, scores, limit, min_threshold, argsort) ==
    LET sorted_indices == Reversed(argsort)
        passes(i) == scores[i].base_score >= min_threshold
        filtered_indices ==
            IF min_threshold > 0 THEN SelectSeq(sorted_indices, passes)
            ELSE sorted_indices
        top_indices == Slice(filtered_indices, limit)
    IN  [n \in 1..Len(top_indices) |->
            [idx |-> top_indices[n],
             product |-> engine.products[top_indices[n]],
             score |-> scores[top_indices[n]].score,
             base_score |-> scores[top_indices[n]].base_score,
             neural_score |-> scores[top_indices[n]].neural_score,
             fuzzy_score |-> scores[top_indices[n]].fuzzy_score]]

RankedResultsInverted(engine, scores, limit, min_threshold, argsort) ==
    LET sorted_indices == Reversed(argsort)
        passes(i) == scores[i].score <= min_threshold
        filtered_indices ==
            IF min_threshold > 0 THEN SelectSeq(sorted_indices, passes)
            ELSE sorted_indices
        top_indices == Slice(filtered_indices, limit)
    IN  [n \in 1..Len(top_indices) |->
            [idx |-> top_indices[n],
             product |-> engine.products[top_indices[n]],
             score |-> scores[top_indices[n]].score,
             base_score |-> scores[top_indices[n]].base_score,
             neural_score |-> scores[top_indices[n]].neural_score,
             fuzzy_score |-> scores[top_indices[n]].fuzzy_score]]

RankedResults(engine, scores, limit, min_threshold, argsort) ==
    LET sorted_indices == Reversed(argsort)
        passes(i) == scores[i].score >= min_threshold
        filtered_indices ==
            IF min_threshold > 0 THEN SelectSeq(sorted_indices, passes)
            ELSE sorted_indices
        top_indices == Slice(filtered_indices, limit)
    IN  [n \in 1..Len(top_indices) |->
            [idx |-> top_indices[n],
             product |-> engine.products[top_indices[n]],
             score |-> scores[top_indices[n]].score,
             base_score |-> scores[top_indices[n]].base_score,
             neural_score |-> scores[top_indices[n]].neural_score,
             fuzzy_score |-> scores[top_indices[n]].fuzzy_score]]

\* What can go wrong in the environment during one call of search: nothing,
\* the SentenceTransformer cannot be constructed, or encode (or the scorer)
\* raises.
SearchFaults == {"none", "model", "encode"}

\* NeuralSearchEngine.search (src/app.py 196-311), as the set of its possible
\* outcomes (one per ordering argsort may return). raised is TRUE when an
\* exception leaves the method; engine is the engine object after the call.
EngineSearch(engine, file, query, limit, boost_config, min_threshold, fault) ==
    LET loaded == IF engine.products = <<>> THEN Load(engine, file)
                  ELSE [ok |-> TRUE, engine |-> engine]
        e == loaded.engine
        scores == Scores(e, query, boost_config)
    IN  IF ~loaded.ok
        THEN {[raised |-> FALSE, results |-> <<>>, engine |-> e]}
        ELSE IF ~e.embedder /\ fault = "model"
        THEN {[raised |-> TRUE, results |-> <<>>, engine |-> e]}
        ELSE IF fault = "encode" \/ Len(e.embeddings) # Len(e.products)
        THEN {[raised |-> FALSE, results |-> <<>>,
               engine |-> [e EXCEPT !.embedder = TRUE]]}
        ELSE {[raised |-> FALSE,
               results |-> RankedResults(e, scores, limit, min_threshold, argsort),
               engine |-> [e EXCEPT !.embedder = TRUE]] :
                 argsort \in ArgSorts([i \in 1..Len(scores) |-> scores[i].score])}

\* ------------------------------------------------------------------ inputs
\* The number of shops that send requests.
NumShops == 1

Digit == <<"1", "2", "3", "4">>
ShopId(n) == <<"shop", Digit[n]>>
ShopIds == {ShopId(n) : n \in 1..NumShops}
\* A request without shop_id, and one whose shop_id is not alphanumeric.
BadShopIds == {<<>>, <<"shop", "_", "1">>}
RequestShopIds == ShopIds \cup BadShopIds

\* str.isalnum()
isalnum(s) == s # <<>> /\ \A i \in 1..Len(s) : s[i] \in {"shop"} \cup {Digit[n] : n \in 1..Len(Digit)}

ElemBlack ==
    [id |-> <<"1">>, name |-> <<"Ashley", " ", "Black">>, mpn |-> <<"ASH">>,
     description |-> <<"<", "b", ">", "Slim", "<", "/", "b", ">", " ", "\n", "fit">>,
     category |-> <<"Jeans">>, color |-> <<"Black">>, fit |-> <<"Slim", " ", "fit">>,
     price |-> <<"62">>, url |-> <<"u1">>]
ElemBlue ==
    [id |-> <<"2">>, name |-> <<"Grace", " ", "Blue">>, model |-> <<"GRC">>,
     category |-> <<"Jeans">>, color |-> <<"Blue">>, season |-> <<"kalokair", "ino">>,
     price_with_vat |-> <<"59">>, price |-> <<"48">>, link |-> <<"u2">>]
ElemGrey ==
    [id |-> <<"3">>, name |-> <<"Simon">>, category |-> <<"Jeans">>,
     manufacturer |-> <<"acme">>]
ElemGreyTwin ==
    [id |-> <<"4">>, name |-> <<"Simon">>, category |-> <<"Jeans">>,
     manufacturer |-> <<"acme">>]

\* The xml of a train request: missing, not well-formed, or a document with
\* its <product> elements.
XmlMissing == [kind |-> "missing", products |-> <<>>]
XmlMalformed == [kind |-> "malformed", products |-> <<>>]
Xml(elements) == [kind |-> "xml", products |-> elements]

FeedA == Xml(<<ElemBlack, ElemBlue>>)
FeedB == Xml(<<ElemGrey, ElemGreyTwin, ElemBlack>>)
\* A product with no text of its own: an empty <id/> and a <name> of blanks.
ElemBlank == [id |-> <<>>, name |-> <<" ", "\n">>]
FeedBlank == Xml(<<ElemBlank>>)
FeedMixed == Xml(<<ElemBlank, ElemBlack>>)
\* A product whose name ends with a "<" and whose model ends with a ">", and
\* one with markup inside markup.
ElemSplitTag == [id |-> <<"5">>, name |-> <<"a", " ", "<">>, mpn |-> <<"b", ">">>]
ElemNestedTag ==
    [id |-> <<"6">>, name |-> <<"<", "<", "i", ">", "b", ">", "x", "<", ">">>,
     description |-> <<"<", "p", ">", "long", " ", " ", "text", "<", "/", "p", ">">>]
FeedSplitTag == Xml(<<ElemSplitTag>>)
FeedNestedTag == Xml(<<ElemNestedTag, ElemBlack>>)
FeedEmpty == Xml(<<>>)
Feeds == {XmlMissing, XmlMalformed, FeedEmpty, FeedA, FeedB}

\* ------------------------------------------------------------------- state
\* The defaults of the query parameters (src/app.py 387-400).
DefaultLimit == 5
NoBoost == [key \in BoostKeys |-> 0]

VARIABLES
    loaded_models,     \* shop id -> <<>> or <<engine>>: the cache
    training_status,   \* shop id -> status record (status "none": no entry)
    disk,              \* shop id -> the file MODELS_DIR/shop_<id>.json
    tasks,             \* the threads running background_train
    searches,          \* the request threads inside search()
    reply,             \* the response an endpoint has just sent
    call               \* a direct call of NeuralSearchEngine.search and its outcome

vars == <<loaded_models, training_status, disk, tasks, searches, reply, call>>

NoStatus == [status |-> "none", products_count |-> 0, error |-> ""]
StatusTraining == [status |-> "training", products_count |-> 0, error |-> ""]
StatusCompleted(n) == [status |-> "completed", products_count |-> n, error |-> ""]
StatusFailed(error) == [status |-> "failed", products_count |-> 0, error |-> error]

\* A thread of background_train: where it is, its arguments and its engine.
\* cache_before is not program state: it records the products the shop had in
\* the cache when the thread was started.
IdleTask == [pc |-> "idle", shop_id |-> <<>>, xml_content |-> XmlMissing,
             engine |-> NewEngine, cache_before |-> <<>>]

\* The products of a cache entry: <<>> for no entry, else <<products>>.
CachedProducts(entry) == IF entry = <<>> THEN <<>> ELSE <<entry[1].products>>
IdleSearch == [pc |-> "idle", shop_id |-> <<>>, engine |-> NewEngine]

\* A response: the endpoint, the shop_id of the request, the HTTP code, and
\* of the body trained (/status), status (/train, /training-status),
\* products_count, results (/search) and shops (/shops).
NoReply == [op |-> "none", shop_id |-> <<>>, code |-> 0, trained |-> FALSE,
            products_count |-> 0, status |-> "", results |-> <<>>, shops |-> {}]
Reply(op, shop_id, code) == [NoReply EXCEPT !.op = op, !.shop_id = shop_id, !.code = code]

\* The engine train() builds from a feed it can parse (src/app.py 86-147).
TrainedEngine(xml_content) ==
    LET products == ParseProducts(xml_content.products)
    IN  [products |-> products,
         embeddings |-> EncodeAll([i \in 1..Len(products) |-> products[i].search_text]),
         embedder |-> TRUE]

ArtifactOf(shop_id, xml_content) ==
    ModelData(shop_id, TrainedEngine(xml_content).products,
              TrainedEngine(xml_content).embeddings)

\* No direct call of the engine (the endpoints make the calls).
NoOutcome == [raised |-> FALSE, results |-> <<>>, engine |-> NewEngine]
\* What train() has not returned yet, and what load() has not returned yet.
NoResult == [success |-> FALSE, raised |-> FALSE, error |-> "", products_count |-> 0,
             engine |-> NewEngine, file |-> NoFile]
NoLoad == [called |-> FALSE, ok |-> FALSE, engine |-> NewEngine]
NoCall == [engine |-> NewEngine, file |-> NoFile, query |-> <<>>, limit |-> 0,
           boost_config |-> NoBoost, min_threshold |-> 0, fault |-> "none",
           done |-> FALSE, outcome |-> NoOutcome,
           xml_content |-> XmlMissing, result |-> NoResult, loaded |-> NoLoad]

\* A process starts with an empty cache, no status and idle threads;
\* MODELS_DIR holds what earlier processes left: for each shop nothing, or the
\* complete artifact of FeedA.
InitWith(shops, bad_ids, n_tasks, n_searches) ==
    /\ loaded_models = [s \in shops \cup bad_ids |-> <<>>]
    /\ training_status = [s \in shops \cup bad_ids |-> NoStatus]
    /\ disk \in {d \in [shops \cup bad_ids ->
                          {NoFile} \cup {WholeFile(ArtifactOf(s, FeedA)) : s \in shops}] :
                   \A s \in shops \cup bad_ids :
                       /\ s \in bad_ids => d[s] = NoFile
                       /\ d[s].exists => d[s].content[1].shop_id = s}
    /\ tasks = [k \in 1..n_tasks |-> IdleTask]
    /\ searches = [k \in 1..n_searches |-> IdleSearch]
    /\ reply = NoReply

Init ==
    /\ InitWith(ShopIds, BadShopIds, MaxTasks, MaxSearches)
    /\ call = NoCall

\* The shop ids requests come with.
RequestIds == DOMAIN loaded_models

\* reply holds a response from the step that sends it until the client has
\* it; the model lets no other step in between, so that a response stands
\* next to the state it was computed in.
Ready == reply = NoReply

ResponseReceived ==
    /\ reply # NoReply
    /\ reply' = NoReply
    /\ UNCHANGED <<call, loaded_models, training_status, disk, tasks, searches>>

\* ---------------------------------------------------------------- training
\* The lowest idle slot of a pool of threads (threads are interchangeable).
IdleSlot(pool) == Min({k \in DOMAIN pool : pool[k].pc = "idle"})
HasIdleSlot(pool) == \E k \in DOMAIN pool : pool[k].pc = "idle"

\* background_train ends: it writes the status and its thread is over.
EndTask(k, status) ==
    /\ training_status' = [training_status EXCEPT ![tasks[k].shop_id] = status]
    /\ tasks' = [tasks EXCEPT ![k] = IdleTask]

\* /train, rejected by validation (src/app.py 454-470).
TrainRejected(shop_id, xml_content) ==
    /\ Ready
    /\ shop_id = <<>> \/ xml_content.kind = "missing" \/ ~isalnum(shop_id)
    /\ reply' = Reply("train", shop_id, 400)
    /\ UNCHANGED <<call, loaded_models, training_status, disk, tasks, searches>>

\* /train, accepted (src/app.py 472-494): the status becomes training and a
\* thread running background_train is started.
\* (TrainAcceptedNoStatus is TrainAccepted without the assignment of line 473.)
TrainAcceptedNoStatus(shop_id, xml_content) ==
    /\ Ready
    /\ shop_id # <<>> /\ xml_content.kind # "missing" /\ isalnum(shop_id)
    /\ HasIdleSlot(tasks)
    /\ tasks' = [tasks EXCEPT ![IdleSlot(tasks)] =
                    [pc |-> "train", shop_id |-> shop_id,
                     xml_content |-> xml_content, engine |-> NewEngine,
                     cache_before |-> CachedProducts(loaded_models[shop_id])]]
    /\ reply' = [Reply("train", shop_id, 200) EXCEPT !.status = "training"]
    /\ UNCHANGED <<call, loaded_models, training_status, disk, searches>>

\* (TrainAcceptedUnchecked is TrainAccepted without the test of line 469.)
TrainAcceptedUnchecked(shop_id, xml_content) ==
    /\ Ready
    /\ shop_id # <<>> /\ xml_content.kind # "missing"
    /\ HasIdleSlot(tasks)
    /\ training_status' = [training_status EXCEPT ![shop_id] = StatusTraining]
    /\ tasks' = [tasks EXCEPT ![IdleSlot(tasks)] =
                    [pc |-> "train", shop_id |-> shop_id,
                     xml_content |-> xml_content, engine |-> NewEngine,
                     cache_before |-> CachedProducts(loaded_models[shop_id])]]
    /\ reply' = [Reply("train", shop_id, 200) EXCEPT !.status = "training"]
    /\ UNCHANGED <<call, loaded_models, disk, searches>>

TrainAccepted(shop_id, xml_content) ==
    /\ Ready
    /\ shop_id # <<>> /\ xml_content.kind # "missing" /\ isalnum(shop_id)
    /\ HasIdleSlot(tasks)
    /\ training_status' = [training_status EXCEPT ![shop_id] = StatusTraining]
    /\ tasks' = [tasks EXCEPT ![IdleSlot(tasks)] =
                    [pc |-> "train", shop_id |-> shop_id,
                     xml_content |-> xml_content, engine |-> NewEngine,
                     cache_before |-> CachedProducts(loaded_models[shop_id])]]
    /\ reply' = [Reply("train", shop_id, 200) EXCEPT !.status = "training"]
    /\ UNCHANGED <<call, loaded_models, disk, searches>>

\* The errors that can end train() before it writes (src/app.py 82-143): the
\* SentenceTransformer cannot be constructed, the feed does not parse or has
\* no product, encode raises, or the artifact cannot be opened for writing.
TrainErrors(xml_content) ==
    {"model load failed"} \cup
    (IF xml_content.kind = "malformed" THEN {"syntax error"}
     ELSE IF Len(xml_content.products) = 0 THEN {"No products found in XML"}
     ELSE {"encode failed", "cannot open file"})

\* Whether train() can get as far as writing the artifact.
\* (CanTrainAnyXml is CanTrain without the check of src/app.py 127-128.)
CanTrainAnyXml(xml_content) == xml_content.kind = "xml"
CanTrain(xml_content) == xml_content.kind = "xml" /\ Len(xml_content.products) > 0

\* background_train whose train() fails before it writes: the status becomes
\* failed (src/app.py 336-352).
\* (TrainFailsEvicts is TrainFails with a handler that also drops the shop
\* from the cache.)
TrainFailsEvicts(k) ==
    /\ Ready
    /\ tasks[k].pc = "train"
    /\ \E error \in TrainErrors(tasks[k].xml_content) : EndTask(k, StatusFailed(error))
    /\ loaded_models' = [loaded_models EXCEPT ![tasks[k].shop_id] = <<>>]
    /\ UNCHANGED <<call, disk, searches, reply>>
TrainFails(k) ==
    /\ Ready
    /\ tasks[k].pc = "train"
    /\ \E error \in TrainErrors(tasks[k].xml_content) : EndTask(k, StatusFailed(error))
    /\ UNCHANGED <<call, loaded_models, disk, searches, reply>>

\* train() parses, embeds and opens the artifact for writing, which truncates
\* it (src/app.py 82-143).
TrainOpens(k) ==
    /\ Ready
    /\ tasks[k].pc = "train"
    /\ CanTrain(tasks[k].xml_content)
    /\ disk' = [disk EXCEPT ![tasks[k].shop_id] = TornFile]
    /\ tasks' = [tasks EXCEPT ![k].pc = "write",
                              ![k].engine = TrainedEngine(tasks[k].xml_content)]
    /\ UNCHANGED <<call, loaded_models, training_status, searches, reply>>

\* json.dump and the end of the with block: the document is in the file and
\* train() returns success (src/app.py 143-156).
TrainWrites(k) ==
    /\ Ready
    /\ tasks[k].pc = "write"
    /\ disk' = [disk EXCEPT ![tasks[k].shop_id] =
                   WholeFile(ModelData(tasks[k].shop_id, tasks[k].engine.products,
                                       tasks[k].engine.embeddings))]
    /\ tasks' = [tasks EXCEPT ![k].pc = "install"]
    /\ UNCHANGED <<call, loaded_models, training_status, searches, reply>>

\* The write raises (the disk is full, say): the file keeps the prefix it
\* holds and the status becomes failed (src/app.py 158-160, 336-343).
\* (TrainWriteFailsSilently is TrainWriteFails with a thread that dies
\* without writing the status.)
TrainWriteFailsSilently(k) ==
    /\ Ready
    /\ tasks[k].pc = "write"
    /\ tasks' = [tasks EXCEPT ![k] = IdleTask]
    /\ UNCHANGED <<call, loaded_models, training_status, disk, searches, reply>>
TrainWriteFails(k) ==
    /\ Ready
    /\ tasks[k].pc = "write"
    /\ EndTask(k, StatusFailed("write failed"))
    /\ UNCHANGED <<call, loaded_models, disk, searches, reply>>

\* loaded_models[shop_id] = engine (src/app.py 327).
\* (TrainInstallsCompleted is TrainInstalls with lines 327 and 329 merged:
\* the status is written while the thread still runs.)
TrainInstallsCompleted(k) ==
    /\ Ready
    /\ tasks[k].pc = "install"
    /\ loaded_models' = [loaded_models EXCEPT ![tasks[k].shop_id] = <<tasks[k].engine>>]
    /\ training_status' = [training_status EXCEPT ![tasks[k].shop_id] =
                              StatusCompleted(Len(tasks[k].engine.products))]
    /\ tasks' = [tasks EXCEPT ![k].pc = "complete"]
    /\ UNCHANGED <<call, disk, searches, reply>>
TrainInstalls(k) ==
    /\ Ready
    /\ tasks[k].pc = "install"
    /\ loaded_models' = [loaded_models EXCEPT ![tasks[k].shop_id] = <<tasks[k].engine>>]
    /\ tasks' = [tasks EXCEPT ![k].pc = "complete"]
    /\ UNCHANGED <<call, training_status, disk, searches, reply>>

\* training_status[shop_id] = completed (src/app.py 329-334).
TrainCompletes(k) ==
    /\ Ready
    /\ tasks[k].pc = "complete"
    /\ EndTask(k, StatusCompleted(Len(tasks[k].engine.products)))
    /\ UNCHANGED <<call, loaded_models, disk, searches, reply>>

background_train(k) ==
    \/ TrainFails(k)
    \/ TrainOpens(k)
    \/ TrainWrites(k)
    \/ TrainWriteFails(k)
    \/ TrainInstalls(k)
    \/ TrainCompletes(k)

\* ------------------------------------------------------------------ /search

QueryBlackJeans == <<"black", " ", "jeans">>
\* The q of the requests of the concurrent model: missing, or one query.
RequestQueries == {<<>>, QueryBlackJeans}

\* The response of /search once engine.search has run (src/app.py 426-440).
SearchResponse(shop_id, outcome) ==
    IF outcome.raised THEN Reply("search", shop_id, 500)
    ELSE [Reply("search", shop_id, 200) EXCEPT !.results = outcome.results]

\* The response when engine.load() returned False (src/app.py 416-420).
\* (LoadFailedEmpty is LoadFailedResponse answering with an empty success.)
LoadFailedEmpty(shop_id, file) == Reply("search", shop_id, 200)
LoadFailedResponse(shop_id, file) == Reply("search", shop_id, 404)

\* /search, rejected by validation (src/app.py 402-410).
SearchRejected(shop_id, query) ==
    /\ Ready
    /\ shop_id = <<>> \/ query = <<>> \/ ~isalnum(shop_id)
    /\ reply' = Reply("search", shop_id, 400)
    /\ UNCHANGED <<call, loaded_models, training_status, disk, tasks, searches>>

\* /search with the shop in the cache (src/app.py 422-440): the cached engine
\* answers.
SearchCached(shop_id, query) ==
    /\ Ready
    /\ shop_id # <<>> /\ query # <<>> /\ isalnum(shop_id)
    /\ loaded_models[shop_id] # <<>>
    /\ \E fault \in SearchFaults :
         \E outcome \in EngineSearch(loaded_models[shop_id][1], disk[shop_id], query,
                                     DefaultLimit, NoBoost, 0, fault) :
            /\ loaded_models' = [loaded_models EXCEPT ![shop_id] = <<outcome.engine>>]
            /\ reply' = SearchResponse(shop_id, outcome)
    /\ UNCHANGED <<call, training_status, disk, tasks, searches>>

\* /search with the shop not in the cache (src/app.py 414-415): a new engine
\* is made, to be loaded from the artifact.
SearchMisses(shop_id, query) ==
    /\ Ready
    /\ shop_id # <<>> /\ query # <<>> /\ isalnum(shop_id)
    /\ loaded_models[shop_id] = <<>>
    /\ HasIdleSlot(searches)
    /\ searches' = [searches EXCEPT ![IdleSlot(searches)] =
                       [pc |-> "load", shop_id |-> shop_id, engine |-> NewEngine]]
    /\ UNCHANGED <<call, loaded_models, training_status, disk, tasks, reply>>

\* engine.load() returns False: the artifact is missing or cannot be read
\* (src/app.py 416-420, 162-181).
SearchLoadFails(k) ==
    /\ Ready
    /\ searches[k].pc = "load"
    /\ ~Load(searches[k].engine, disk[searches[k].shop_id]).ok
    /\ reply' = LoadFailedResponse(searches[k].shop_id, disk[searches[k].shop_id])
    /\ searches' = [searches EXCEPT ![k] = IdleSearch]
    /\ UNCHANGED <<call, loaded_models, training_status, disk, tasks>>

\* engine.load() reads the artifact (src/app.py 416, 162-177).
\* (SearchLoadsFirstShop is SearchLoads with an engine whose model_path is
\* that of the first shop, whatever its shop_id.)
SearchLoadsFirstShop(k) ==
    /\ Ready
    /\ searches[k].pc = "load"
    /\ Load(searches[k].engine, disk[ShopId(1)]).ok
    /\ searches' = [searches EXCEPT ![k].pc = "install",
                                    ![k].engine = Load(searches[k].engine,
                                                       disk[ShopId(1)]).engine]
    /\ UNCHANGED <<call, loaded_models, training_status, disk, tasks, reply>>

SearchLoads(k) ==
    /\ Ready
    /\ searches[k].pc = "load"
    /\ Load(searches[k].engine, disk[searches[k].shop_id]).ok
    /\ searches' = [searches EXCEPT ![k].pc = "install",
                                    ![k].engine = Load(searches[k].engine,
                                                       disk[searches[k].shop_id]).engine]
    /\ UNCHANGED <<call, loaded_models, training_status, disk, tasks, reply>>

\* loaded_models[shop_id] = engine, then engine.search (src/app.py 421-440).
SearchInstalls(k) ==
    /\ Ready
    /\ searches[k].pc = "install"
    /\ \E fault \in SearchFaults :
         \E outcome \in EngineSearch(searches[k].engine, disk[searches[k].shop_id],
                                     QueryBlackJeans, DefaultLimit, NoBoost, 0, fault) :
            /\ loaded_models' = [loaded_models EXCEPT ![searches[k].shop_id] = <<outcome.engine>>]
            /\ reply' = SearchResponse(searches[k].shop_id, outcome)
    /\ searches' = [searches EXCEPT ![k] = IdleSearch]
    /\ UNCHANGED <<call, training_status, disk, tasks>>

\* --------------------------------------------------- the read-only endpoints
\* /status (src/app.py 530-559)
status(shop_id) ==
    /\ Ready
    /\ reply' =
         IF shop_id = <<>> \/ ~isalnum(shop_id) THEN Reply("status", shop_id, 400)
         ELSE IF ~disk[shop_id].exists THEN Reply("status", shop_id, 200)
         ELSE IF Parses(disk[shop_id])
              THEN [Reply("status", shop_id, 200) EXCEPT
                       !.trained = TRUE,
                       !.products_count = Len(disk[shop_id].content[1].products)]
              ELSE Reply("status", shop_id, 500)
    /\ UNCHANGED <<call, loaded_models, training_status, disk, tasks, searches>>

\* /training-status (src/app.py 504-520)
get_training_status(shop_id) ==
    /\ Ready
    /\ reply' =
         IF shop_id = <<>> \/ ~isalnum(shop_id) THEN Reply("training-status", shop_id, 400)
         ELSE [Reply("training-status", shop_id, 200) EXCEPT
                  !.status = IF training_status[shop_id].status = "none" THEN "unknown"
                             ELSE training_status[shop_id].status,
                  !.products_count = training_status[shop_id].products_count]
    /\ UNCHANGED <<call, loaded_models, training_status, disk, tasks, searches>>

\* /shops (src/app.py 562-583): the files that cannot be read are skipped.
list_shops ==
    /\ Ready
    /\ reply' = [Reply("shops", <<>>, 200) EXCEPT
                    !.shops = {s \in DOMAIN disk : Parses(disk[s])}]
    /\ UNCHANGED <<call, loaded_models, training_status, disk, tasks, searches>>

\* ------------------------------------------------------------ specification
Next ==
    \/ \E shop_id \in RequestIds, xml_content \in Feeds : TrainRejected(shop_id, xml_content)
    \/ \E shop_id \in RequestIds, xml_content \in Feeds : TrainAccepted(shop_id, xml_content)
    \/ \E k \in DOMAIN tasks : TrainFails(k)
    \/ \E k \in DOMAIN tasks : TrainOpens(k)
    \/ \E k \in DOMAIN tasks : TrainWrites(k)
    \/ \E k \in DOMAIN tasks : TrainWriteFails(k)
    \/ \E k \in DOMAIN tasks : TrainInstalls(k)
    \/ \E k \in DOMAIN tasks : TrainCompletes(k)
    \/ \E shop_id \in RequestIds, query \in RequestQueries : SearchRejected(shop_id, query)
    \/ \E shop_id \in RequestIds, query \in RequestQueries : SearchCached(shop_id, query)
    \/ \E shop_id \in RequestIds, query \in RequestQueries : SearchMisses(shop_id, query)
    \/ \E k \in DOMAIN searches : SearchLoadFails(k)
    \/ \E k \in DOMAIN searches : SearchLoads(k)
    \/ \E k \in DOMAIN searches : SearchInstalls(k)
    \/ \E shop_id \in RequestIds : status(shop_id)
    \/ \E shop_id \in RequestIds : get_training_status(shop_id)
    \/ list_shops
    \/ ResponseReceived

Spec == Init /\ [][Next]_vars


\* ------------------------------------------- NeuralSearchEngine.search alone
\* The engines search is called on: a new one, one train() has trained, and
\* one load() has filled (its embedder not loaded yet).
LoadedEngine(xml_content) == [TrainedEngine(xml_content) EXCEPT !.embedder = FALSE]
CallEngines ==
    {NewEngine, TrainedEngine(FeedA), TrainedEngine(FeedB), LoadedEngine(FeedB)}
CallFiles == {NoFile, TornFile, WholeFile(ArtifactOf(ShopId(1), FeedA))}
CallQueries ==
    {QueryBlackJeans, <<"simon">>, <<"Summer", " ", "winter", " ", "jeans">>,
     <<"acme", " ", "simon">>}
CallLimits == {-1, 0, 2, DefaultLimit}
CallThresholds == {-100, 0, 400, 1100}
CallBoosts ==
    {NoBoost,
     [NoBoost EXCEPT !.category = 200, !.color = 300],
     [NoBoost EXCEPT !.season = 150, !.fit = 100, !.manufacturer = -50]}

InitEngine ==
    /\ InitWith({}, {}, 0, 0)
    /\ \E engine \in CallEngines, file \in CallFiles, query \in CallQueries,
          limit \in CallLimits, boost_config \in CallBoosts,
          min_threshold \in CallThresholds, fault \in SearchFaults :
         /\ engine # NewEngine => file = NoFile
         /\ call = [NoCall EXCEPT !.engine = engine, !.file = file, !.query = query,
                                  !.limit = limit, !.boost_config = boost_config,
                                  !.min_threshold = min_threshold, !.fault = fault]

\* engine.search(query, limit, boost_config, min_threshold) returns or raises.
SearchCalled ==
    /\ ~call.done
    /\ \E outcome \in EngineSearch(call.engine, call.file, call.query, call.limit,
                                   call.boost_config, call.min_threshold, call.fault) :
         call' = [call EXCEPT !.done = TRUE, !.outcome = outcome]
    /\ UNCHANGED <<loaded_models, training_status, disk, tasks, searches, reply>>

NextEngine == SearchCalled

SpecEngine == InitEngine /\ [][NextEngine]_vars


\* ------------------------------------- NeuralSearchEngine.train and load alone
\* What can go wrong in the environment during one call of train: nothing, the
\* SentenceTransformer cannot be constructed, encode raises, the artifact
\* cannot be opened for writing, or the write raises.
TrainFaults == {"none", "model", "encode", "open", "write"}

\* NeuralSearchEngine.train (src/app.py 76-160) on a new engine of shop_id:
\* what it returns (or that it raised), the engine after the call and the
\* artifact after the call.
Train(shop_id, file, xml_content, fault) ==
    LET trained == TrainedEngine(xml_content)
        failure(error, after) ==
            [NoResult EXCEPT !.error = error, !.file = after,
                             !.engine = [NewEngine EXCEPT !.embedder = TRUE]]
    IN  IF fault = "model"
        THEN [NoResult EXCEPT !.raised = TRUE, !.error = "model load failed", !.file = file]
        ELSE IF ~CanTrain(xml_content)
        THEN failure(CHOOSE error \in TrainErrors(xml_content) : error # "model load failed",
                     file)
        ELSE IF fault = "encode" THEN failure("encode failed", file)
        ELSE IF fault = "open" THEN failure("cannot open file", file)
        ELSE IF fault = "write" THEN failure("write failed", TornFile)
        ELSE [NoResult EXCEPT
                 !.success = TRUE,
                 !.products_count = Len(trained.products),
                 !.engine = trained,
                 !.file = WholeFile(ModelData(shop_id, trained.products, trained.embeddings))]

TrainFeeds ==
    {XmlMalformed, FeedEmpty, FeedA, FeedB, FeedBlank, FeedMixed, FeedSplitTag,
     FeedNestedTag}

InitTrain ==
    /\ InitWith({}, {}, 0, 0)
    /\ \E file \in CallFiles, xml_content \in TrainFeeds, fault \in TrainFaults :
         call = [NoCall EXCEPT !.file = file, !.xml_content = xml_content, !.fault = fault]

\* engine.train(xml_content) returns or raises.
TrainCalled ==
    /\ ~call.done
    /\ call' = [call EXCEPT !.done = TRUE,
                            !.result = Train(ShopId(1), call.file, call.xml_content,
                                             call.fault)]
    /\ UNCHANGED <<loaded_models, training_status, disk, tasks, searches, reply>>

\* A new engine of the shop calls load() on the artifact train() left.
LoadCalled ==
    /\ call.done
    /\ ~call.loaded.called
    /\ call' = [call EXCEPT !.loaded =
                   [called |-> TRUE,
                    ok |-> Load(NewEngine, call.result.file).ok,
                    engine |-> Load(NewEngine, call.result.file).engine]]
    /\ UNCHANGED <<loaded_models, training_status, disk, tasks, searches, reply>>

NextTrain == TrainCalled \/ LoadCalled

SpecTrain == InitTrain /\ [][NextTrain]_vars

\* -------------------------------------------- further specifications
\* One background_train thread at a time: no two training runs overlap.
InitSerial == InitWith(ShopIds, BadShopIds, 1, MaxSearches) /\ call = NoCall

SpecSerial == InitSerial /\ [][Next]_vars

\* Training alone: /train, the threads of background_train and
\* /training-status, with no search in flight.
InitTraining == InitWith(ShopIds, BadShopIds, MaxTasks, 0) /\ call = NoCall

NextTraining ==
    \/ \E shop_id \in RequestIds, xml_content \in Feeds : TrainRejected(shop_id, xml_content)
    \/ \E shop_id \in RequestIds, xml_content \in Feeds : TrainAccepted(shop_id, xml_content)
    \/ \E k \in DOMAIN tasks : TrainFails(k)
    \/ \E k \in DOMAIN tasks : TrainOpens(k)
    \/ \E k \in DOMAIN tasks : TrainWrites(k)
    \/ \E k \in DOMAIN tasks : TrainWriteFails(k)
    \/ \E k \in DOMAIN tasks : TrainInstalls(k)
    \/ \E k \in DOMAIN tasks : TrainCompletes(k)
    \/ \E shop_id \in RequestIds : get_training_status(shop_id)
    \/ ResponseReceived

\* Searches and the reads of the artifacts, two searches in flight at most,
\* with no training run.
InitSearch == InitWith(ShopIds, BadShopIds, 0, 2) /\ call = NoCall

NextSearch ==
    \/ \E shop_id \in RequestIds, query \in RequestQueries : SearchRejected(shop_id, query)
    \/ \E shop_id \in RequestIds, query \in RequestQueries : SearchCached(shop_id, query)
    \/ \E shop_id \in RequestIds, query \in RequestQueries : SearchMisses(shop_id, query)
    \/ \E k \in DOMAIN searches : SearchLoadFails(k)
    \/ \E k \in DOMAIN searches : SearchLoads(k)
    \/ \E k \in DOMAIN searches : SearchInstalls(k)
    \/ \E shop_id \in RequestIds : status(shop_id)
    \/ list_shops
    \/ ResponseReceived

SpecSearch == InitSearch /\ [][NextSearch]_vars

\* Two shops, with one training run and one search in flight at most.
InitTenants == InitWith({ShopId(1), ShopId(2)}, {}, 1, 1) /\ call = NoCall

\* The requests that write: /train with its thread, and /search.
NextTenants ==
    \/ \E shop_id \in RequestIds, xml_content \in Feeds : TrainAccepted(shop_id, xml_content)
    \/ \E k \in DOMAIN tasks : TrainFails(k)
    \/ \E k \in DOMAIN tasks : TrainOpens(k)
    \/ \E k \in DOMAIN tasks : TrainWrites(k)
    \/ \E k \in DOMAIN tasks : TrainWriteFails(k)
    \/ \E k \in DOMAIN tasks : TrainInstalls(k)
    \/ \E k \in DOMAIN tasks : TrainCompletes(k)
    \/ \E shop_id \in RequestIds, query \in RequestQueries : SearchCached(shop_id, query)
    \/ \E shop_id \in RequestIds, query \in RequestQueries : SearchMisses(shop_id, query)
    \/ \E k \in DOMAIN searches : SearchLoadFails(k)
    \/ \E k \in DOMAIN searches : SearchLoads(k)
    \/ \E k \in DOMAIN searches : SearchInstalls(k)
    \/ ResponseReceived

SpecTenants == InitTenants /\ [][NextTenants]_vars

\* The threads of background_train are scheduled by the operating system and
\* each of their steps ends; a response is delivered.  A request that is being
\* answered holds the other steps back for one step only, so a thread that has
\* a step to take can take it again and again: strong fairness on its steps.
FairSpec ==
    /\ InitTraining
    /\ [][NextTraining]_vars
    /\ WF_vars(ResponseReceived)
    /\ \A k \in 1..MaxTasks : SF_vars(background_train(k))

\* ------------------------------------------------------------------- claims
\* C1 (as stated): when a training run ends in failure, the shop's cache entry
\* is the one it had before the run started, whatever else ran meanwhile.
C1_CacheAsBeforeRun ==
    [][\A k \in DOMAIN tasks :
          (/\ tasks[k].pc # "idle"
           /\ tasks'[k].pc = "idle"
           /\ training_status'[tasks[k].shop_id].status = "failed")
          => CachedProducts(loaded_models'[tasks[k].shop_id]) = tasks[k].cache_before]_vars

\* C1 (amended): a training run that ends in failure has not written the
\* cache.  It fails from the steps before the installation only, and none of
\* those steps changes any cache entry.
C1_FailedRunWritesNoCache ==
    [][\A k \in DOMAIN tasks :
          /\ (tasks[k].pc \in {"train", "write"} /\ tasks'[k] # tasks[k])
             => loaded_models' = loaded_models
          /\ (/\ tasks[k].pc # "idle"
              /\ tasks'[k].pc = "idle"
              /\ training_status'[tasks[k].shop_id].status = "failed")
             => tasks[k].pc \in {"train", "write"}]_vars

\* A run has failed, no thread is left, and the shop is still in the cache.
C1_Witness ==
    \E s \in DOMAIN training_status :
       /\ training_status[s].status = "failed"
       /\ loaded_models[s] # <<>>
       /\ \A k \in DOMAIN tasks : tasks[k].pc = "idle"
       /\ \A k \in DOMAIN searches : searches[k].pc = "idle"

\* C2: the artifact is replaced atomically, so no reader sees a file that is
\* partly written: /status never fails to read it and /shops lists every shop
\* that has a file.
C2_NoTornRead ==
    /\ ~(reply.op = "status" /\ reply.code = 500)
    /\ reply.op = "shops" => reply.shops = {s \in DOMAIN disk : disk[s].exists}

\* C3: the results come in descending order of boosted score, and of two
\* products with the same boosted score the one with the smaller index comes
\* first.
C3_DescendingStableTies ==
    call.done =>
       \A m, n \in 1..Len(call.outcome.results) :
          m < n =>
             \/ call.outcome.results[m].score > call.outcome.results[n].score
             \/ /\ call.outcome.results[m].score = call.outcome.results[n].score
                /\ call.outcome.results[m].idx < call.outcome.results[n].idx

\* C4: an artifact that exists but cannot be read is reported as corrupt, not
\* as not trained: /search answers 404 only when the shop has no file.
C4_CorruptIsNotNotTrained ==
    \A s \in DOMAIN disk :
       (reply.op = "search" /\ reply.shop_id = s /\ reply.code = 404) => ~disk[s].exists

\* C5: engine.search never raises, and its result is empty when the embedder
\* cannot be made, when encoding or scoring raises, and when the index has no
\* product.
C5_SearchNeverRaises ==
    call.done =>
       /\ ~call.outcome.raised
       /\ (\/ call.fault = "encode"
           \/ call.fault = "model" /\ ~call.outcome.engine.embedder
           \/ call.outcome.engine.products = <<>>)
          => call.outcome.results = <<>>

\* C6: for a shop (its id valid) with no artifact and no cache entry, /status answers
\* trained = false and a /search that passes validation answers not trained
\* (404), never a success with no result.
C6_UntrainedIsNotTrained ==
    [][\A s \in DOMAIN disk :
          (/\ s # <<>> /\ isalnum(s)
           /\ ~disk[s].exists
           /\ loaded_models[s] = <<>>
           /\ reply' # reply
           /\ reply'.shop_id = s)
          => /\ reply'.op = "status" => (reply'.code = 200 /\ ~reply'.trained)
             /\ (reply'.op = "search" /\ reply'.code # 400) => reply'.code = 404]_vars

\* A search of a shop that has neither file nor cache entry was answered 404.
C6_Witness ==
    \E s \in DOMAIN disk :
       /\ reply.op = "search" /\ reply.shop_id = s /\ reply.code = 404
       /\ ~disk[s].exists
       /\ loaded_models[s] = <<>>

\* C7 (as stated): a status of failed changes only when a later train request
\* is accepted, which makes it training.
C7_FailedUntilAccepted ==
    [][\A s \in DOMAIN training_status :
          training_status[s].status = "failed"
          => \/ training_status'[s] = training_status[s]
             \/ training_status'[s].status = "training"]_vars

\* C7 (amended): a status of failed changes only when a train request is
\* accepted or when another run of the shop, in flight when the status was
\* written, ends.
C7_FailedUntilAcceptedOrRunEnds ==
    [][\A s \in DOMAIN training_status :
          training_status[s].status = "failed"
          => \/ training_status'[s] = training_status[s]
             \/ training_status'[s].status = "training"
             \/ \E k \in DOMAIN tasks :
                   /\ tasks[k].shop_id = s
                   /\ tasks[k].pc # "idle"
                   /\ tasks'[k].pc = "idle"]_vars

\* /training-status reports failed and no run is in flight.
C7_Witness ==
    /\ reply.op = "training-status"
    /\ reply.status = "failed"
    /\ \A k \in DOMAIN tasks : tasks[k].pc = "idle"

C9_RetrainReplaces ==
    [][\A k \in DOMAIN tasks :
          (tasks[k].pc = "complete" /\ tasks'[k].pc = "idle")
          => LET s == tasks[k].shop_id
                 products == ParseProducts(tasks[k].xml_content.products)
             IN  /\ training_status'[s] = StatusCompleted(Len(products))
                 /\ CachedProducts(loaded_models'[s]) = <<products>>
                 /\ Parses(disk'[s])
                 /\ disk'[s].content[1].products = products]_vars

\* C10: a run whose feed does not parse or has no product ends with the status
\* failed in its one step, and that step leaves every artifact as it was.
C10_BadFeedWritesNothing ==
    [][\A k \in DOMAIN tasks :
          (/\ tasks[k].pc # "idle"
           /\ \/ tasks[k].xml_content.kind = "malformed"
              \/ ParseProducts(tasks[k].xml_content.products) = <<>>
           /\ tasks'[k] # tasks[k])
          => /\ disk' = disk
             /\ tasks'[k].pc = "idle"
             /\ training_status'[tasks[k].shop_id].status = "failed"]_vars

\* A feed was refused for its content and the artifact of the shop, written
\* before, is whole.
C10_Witness ==
    \E s \in DOMAIN training_status :
       /\ training_status[s].error \in {"syntax error", "No products found in XML"}
       /\ Parses(disk[s])

\* C11: with min_threshold > 0 every result has a boosted score of at least
\* min_threshold, and the results are the head of the ranking of the products
\* whose boosted score passes: they are in descending order, no passing
\* product left out has a higher score than a result, and with limit >= 0
\* there are min(limit, number of passing products) of them, whatever their
\* combined scores are.
C11_ThresholdOnBoostedScore ==
    (/\ call.done
     /\ call.min_threshold > 0
     /\ ~call.outcome.raised
     /\ call.fault = "none")
    => LET e == call.outcome.engine
           R == call.outcome.results
           sc == Scores(e, call.query, call.boost_config)
           passing == {i \in 1..Len(e.products) : sc[i].score >= call.min_threshold}
           returned == {R[n].idx : n \in 1..Len(R)}
       IN  /\ \A n \in 1..Len(R) : R[n].score >= call.min_threshold
           /\ returned \subseteq passing
           /\ Cardinality(returned) = Len(R)
           /\ \A m, n \in 1..Len(R) : m < n => R[m].score >= R[n].score
           /\ \A i \in passing \ returned : \A n \in 1..Len(R) : sc[i].score <= R[n].score
           /\ call.limit >= 0 =>
                 Len(R) = IF call.limit < Cardinality(passing) THEN call.limit
                          ELSE Cardinality(passing)

\* A product whose combined score is below the threshold was returned, its
\* boosted score passing.
C11_Witness ==
    /\ call.done
    /\ call.min_threshold > 0
    /\ \E n \in 1..Len(call.outcome.results) :
          /\ call.outcome.results[n].base_score < call.min_threshold
          /\ call.outcome.results[n].score >= call.min_threshold

\* C12: for every integer limit, negative ones and 0 included, search returns
\* no more than limit results (none for a limit below 1).
C12_AtMostLimit ==
    call.done =>
       Len(call.outcome.results) <= (IF call.limit > 0 THEN call.limit ELSE 0)

\* C13: for every result, score - base_score is the sum of the weights of the
\* attributes whose weight is above 0 and whose predicate matches the query
\* for the product, each counted once (the season too, whatever the number of
\* seasons the query names); a weight of 0 or below adds nothing.
C13_BoostIsSumOfMatchingWeights ==
    call.done =>
       \A n \in 1..Len(call.outcome.results) :
          LET r == call.outcome.results[n]
              q == lower(call.query)
              value(key) == lower(r.product[key])
              matches(key) ==
                  /\ value(key) # <<>>
                  /\ CASE key = "season" ->
                            \E k \in 1..Len(SeasonTable) : FamilyMatches(k, q, value(key))
                       [] key = "fit" ->
                            \E word \in Words(value(key)) : Contains(word, q)
                       [] OTHER -> Contains(value(key), q)
              w(key) == IF call.boost_config[key] > 0 /\ matches(key)
                        THEN call.boost_config[key] ELSE 0
          IN  r.score - r.base_score =
                 w("season") + w("category") + w("manufacturer") + w("color")
                 + w("gender") + w("fit") + w("kind_of")

\* The query names two seasons, the season weight was added once to a result,
\* and a result whose manufacturer is in the query got nothing from the
\* negative manufacturer weight.
C13_Witness ==
    /\ call.done
    /\ call.boost_config.season > 0
    /\ call.boost_config.manufacturer < 0
    /\ \/ /\ Contains(<<"summer">>, lower(call.query))
          /\ Contains(<<"winter">>, lower(call.query))
          /\ \E n \in 1..Len(call.outcome.results) :
                call.outcome.results[n].score - call.outcome.results[n].base_score
                   = call.boost_config.season
       \/ \E n \in 1..Len(call.outcome.results) :
             /\ call.outcome.results[n].product.manufacturer # <<>>
             /\ Contains(call.outcome.results[n].product.manufacturer, lower(call.query))
             /\ call.outcome.results[n].score = call.outcome.results[n].base_score

\* C20: for the same engine, query, limit and boosts, a call with a lower
\* threshold (0 and negative ones included) returns at least as many results.
C20_ThresholdMonotone ==
    (call.done /\ ~call.outcome.raised)
    => \A t \in CallThresholds :
          t <= call.min_threshold
          => \A lower_call \in EngineSearch(call.engine, call.file, call.query, call.limit,
                                             call.boost_config, t, call.fault) :
                Len(call.outcome.results) <= Len(lower_call.results)

\* A call with a threshold above 0 returned fewer results than the same call
\* with no threshold returns.
C20_Witness ==
    /\ call.done
    /\ call.min_threshold > 0
    /\ \E lower_call \in EngineSearch(call.engine, call.file, call.query, call.limit,
                                       call.boost_config, 0, call.fault) :
          Len(call.outcome.results) < Len(lower_call.results)

\* C14: one embedder at most is ever constructed in the process: of the engine
\* objects alive (those in the cache, and those of the training runs that have
\* not installed theirs yet) one at most holds an embedder of its own.
C14_OneEmbedder ==
    Cardinality({k \in DOMAIN tasks :
                    tasks[k].pc \in {"write", "install"} /\ tasks[k].engine.embedder})
    + Cardinality({s \in DOMAIN loaded_models :
                      loaded_models[s] # <<>> /\ loaded_models[s][1].embedder})
    <= 1

\* C15: training succeeds only when one parsed product at least has a
\* non-empty search_text: the index a successful train() keeps and persists
\* has such a product.
C15_SomeSearchText ==
    (call.done /\ call.result.success)
    => /\ \E i \in 1..Len(call.result.engine.products) :
             call.result.engine.products[i].search_text # <<>>
       /\ \E i \in 1..Len(call.result.file.content[1].products) :
             call.result.file.content[1].products[i].search_text # <<>>

\* C16: every index in the cache, in an artifact, or in an engine load() has
\* filled has one embedding row per product, row i being the embedding of the
\* search_text of products[i].
C16_RowPerProduct ==
    LET aligned(products, embeddings) ==
            /\ Len(embeddings) = Len(products)
            /\ \A i \in 1..Len(products) : embeddings[i] = Encode(products[i].search_text)
    IN  /\ \A s \in DOMAIN loaded_models :
             loaded_models[s] # <<>>
             => aligned(loaded_models[s][1].products, loaded_models[s][1].embeddings)
        /\ \A s \in DOMAIN disk :
             Parses(disk[s])
             => aligned(disk[s].content[1].products, disk[s].content[1].embeddings)
        /\ \A k \in DOMAIN searches :
             searches[k].pc = "install"
             => aligned(searches[k].engine.products, searches[k].engine.embeddings)

\* The cache holds an index that load() read from the artifact a training run
\* of this process wrote.
C16_Witness ==
    \E s \in DOMAIN loaded_models :
       /\ loaded_models[s] # <<>>
       /\ ~loaded_models[s][1].embedder
       /\ Len(loaded_models[s][1].products) = 3
       /\ training_status[s].status = "completed"

\* C17: with no training run, the artifact of a shop is loaded from disk once
\* at most: the loads made so far (one if the shop is in the cache, and one
\* for each search that has loaded and not installed yet) are one at most.
C17_OneLoadPerShop ==
    \A s \in DOMAIN loaded_models :
       (IF loaded_models[s] # <<>> THEN 1 ELSE 0)
       + Cardinality({k \in DOMAIN searches :
                         searches[k].pc = "install" /\ searches[k].shop_id = s})
       <= 1

\* C18: a step changes the cache entry, the status or the artifact of a shop
\* only if it is a step of a train or search request for that shop; a search
\* loads the artifact of its own shop; an artifact and a cache entry written
\* for a shop hold the products of the feed a training run of that shop was
\* given, or those of the shop's artifact; and the products a search returns
\* are products of its shop's cache entry.
C18_TenantsIsolated ==
    [][/\ \A s \in DOMAIN loaded_models :
             (\/ loaded_models'[s] # loaded_models[s]
              \/ training_status'[s] # training_status[s]
              \/ disk'[s] # disk[s])
             => \/ \E k \in DOMAIN tasks :
                      /\ tasks'[k] # tasks[k]
                      /\ s = (IF tasks[k].pc = "idle" THEN tasks'[k].shop_id
                              ELSE tasks[k].shop_id)
                \/ \E k \in DOMAIN searches :
                      /\ searches'[k] # searches[k]
                      /\ s = searches[k].shop_id
                \/ /\ reply' # reply
                   /\ reply'.op = "search"
                   /\ reply'.shop_id = s
       /\ \A k \in DOMAIN searches :
             (searches[k].pc = "load" /\ searches'[k].pc = "install")
             => /\ Parses(disk[searches[k].shop_id])
                /\ disk[searches[k].shop_id].content[1].shop_id = searches[k].shop_id
                /\ searches'[k].engine.products
                      = disk[searches[k].shop_id].content[1].products
       /\ \A s \in DOMAIN disk :
             (disk'[s] # disk[s] /\ Parses(disk'[s]))
             => /\ disk'[s].content[1].shop_id = s
                /\ \E k \in DOMAIN tasks :
                      /\ tasks[k].shop_id = s
                      /\ tasks[k].pc = "write"
                      /\ disk'[s].content[1].products
                            = ParseProducts(tasks[k].xml_content.products)
       /\ \A s \in DOMAIN loaded_models :
             (loaded_models'[s] # loaded_models[s])
             => /\ loaded_models'[s] # <<>>
                /\ \/ \E k \in DOMAIN tasks :
                         /\ tasks[k].shop_id = s
                         /\ tasks[k].pc = "install"
                         /\ loaded_models'[s][1].products
                               = ParseProducts(tasks[k].xml_content.products)
                   \/ \E k \in DOMAIN searches :
                         /\ searches[k].shop_id = s
                         /\ searches[k].pc = "install"
                         /\ loaded_models'[s][1].products = searches[k].engine.products
                   \/ /\ loaded_models[s] # <<>>
                      /\ loaded_models'[s][1].products = loaded_models[s][1].products
       /\ (reply' # reply /\ reply'.op = "search" /\ reply'.code = 200)
          => \A n \in 1..Len(reply'.results) :
                \E i \in 1..Len(loaded_models'[reply'.shop_id][1].products) :
                   reply'.results[n].product
                      = loaded_models'[reply'.shop_id][1].products[i]]_vars

\* The two shops hold different indexes, one of them loaded from its artifact
\* by a search, and a search of the second shop has been answered with
\* results.
C18_Witness ==
    /\ loaded_models[ShopId(1)] # <<>>
    /\ loaded_models[ShopId(2)] # <<>>
    /\ loaded_models[ShopId(1)][1].products # loaded_models[ShopId(2)][1].products
    /\ reply.op = "search"
    /\ reply.shop_id = ShopId(2)
    /\ reply.results # <<>>

C21_SearchTextJoinedNoMarkup ==
    (call.done /\ call.result.success)
    => \A n \in 1..Len(call.result.engine.products) :
          LET p == call.result.engine.products[n]
              text == p.search_text
          IN  /\ text = JoinNonEmpty(<<p.name, p.model,
                                       SubSeq(p.description, 1,
                                              IF Len(p.description) < DescriptionLimit
                                              THEN Len(p.description)
                                              ELSE DescriptionLimit),
                                       p.category, p.season, p.gender, p.kind_of,
                                       p.fit, p.color, p.manufacturer>>)
              /\ ~\E i, j \in 1..Len(text) :
                     /\ text[i] = "<"
                     /\ j > i + 1
                     /\ text[j] = ">"
                     /\ \A k \in (i + 1)..(j - 1) : text[k] # ">"

\* C22: when no training run and no search is in flight, a shop that has a
\* cache entry has an artifact with the same products.
C22_CacheMatchesArtifact ==
    ((\A k \in DOMAIN tasks : tasks[k].pc = "idle")
     /\ (\A k \in DOMAIN searches : searches[k].pc = "idle"))
    => \A s \in DOMAIN loaded_models :
          loaded_models[s] # <<>>
          => /\ Parses(disk[s])
             /\ loaded_models[s][1].products = disk[s].content[1].products

\* C23: the products of an existing cache entry change only in the step in
\* which a successful training run of the shop installs its index: no search
\* replaces the entry.
C23_OnlyTrainingReplaces ==
    [][\A s \in DOMAIN loaded_models :
          (/\ loaded_models[s] # <<>>
           /\ CachedProducts(loaded_models'[s]) # CachedProducts(loaded_models[s]))
          => \E k \in DOMAIN tasks :
                /\ tasks[k].shop_id = s
                /\ tasks[k].pc = "install"
                /\ tasks'[k].pc = "complete"]_vars

\* C24 (as stated): while a training run of a shop is in flight, the status of
\* the shop is training.
C24_TrainingWhileInFlight ==
    \A k \in DOMAIN tasks :
       tasks[k].pc # "idle" => training_status[tasks[k].shop_id].status = "training"

\* C24 (amended): the step that starts a training run leaves the status of its
\* shop training, and the status of a shop stops being training only in a step
\* in which a training run of that shop ends.
C24_TrainingUntilARunEnds ==
    [][/\ \A k \in DOMAIN tasks :
             (tasks[k].pc = "idle" /\ tasks'[k].pc # "idle")
             => training_status'[tasks'[k].shop_id].status = "training"
       /\ \A s \in DOMAIN training_status :
             (/\ training_status[s].status = "training"
              /\ training_status'[s].status # "training")
             => \E k \in DOMAIN tasks :
                   /\ tasks[k].shop_id = s
                   /\ tasks[k].pc # "idle"
                   /\ tasks'[k].pc = "idle"]_vars

\* A retraining run, alone in flight, has installed its index and the status
\* is still training.
C24_Witness ==
    \E k \in DOMAIN tasks :
       /\ tasks[k].pc = "complete"
       /\ tasks[k].cache_before # <<>>
       /\ training_status[tasks[k].shop_id].status = "training"
       /\ \A j \in DOMAIN tasks : j # k => tasks[j].pc = "idle"

\* C25: after a train() that failed, load() gives what it gave before the
\* call: the same return value and the same products.
C25_FailedTrainKeepsArtifact ==
    (call.loaded.called /\ ~call.result.success)
    => /\ call.loaded.ok = Load(NewEngine, call.file).ok
       /\ call.loaded.engine.products = Load(NewEngine, call.file).engine.products

=============================================================================
